---- MODULE Spec2Model ----
(***************************************************************************)
(* Model of robotics-brain/training/isaac_lab_training.py: the digital     *)
(* twin validator (DigitalTwinTester), the advantage estimator             *)
(* (PPOTrainer.compute_gae) and the PPO trainer's epoch loop.              *)
(*                                                                         *)
(* Numbers.  Joint targets are floats; a float is modelled as a record     *)
(* [nan, v] with v an integer count of 1/10000 rad, and NaN a value of its *)
(* own whose ordered comparisons are all false, as IEEE-754 and Python     *)
(* define them.  Durations are integer counts of 1/100 ms.                 *)
(***************************************************************************)
EXTENDS Integers, Sequences, FiniteSets, TLC

VARIABLES
    \* ---- DigitalTwinTester ----
    commands,              \* argument of the last test_command_sequence call
    expected_duration_ms,  \* argument of the last test_command_sequence call
    result,                \* value returned by the last call (NoResult before)
    test_results,          \* self.test_results
    calls,                 \* log of every call: its arguments and returned value
    target_frequency_hz,   \* argument of validate_motor_timing
    timing_report,         \* value returned by validate_motor_timing
    \* ---- PPOTrainer: the rollout buffers, one entry per collected step ----
    obs_buffer,            \* self.obs_buffer: the observation the step acted on
    actions_buffer,        \* self.actions_buffer: the parameter version that sampled the action
    rewards_buffer,        \* self.rewards_buffer: the reward of each environment
    values_buffer,         \* self.values_buffer: the value estimate of each environment
    log_probs_buffer,      \* self.log_probs_buffer: the parameter version that scored the action
    dones_buffer,          \* self.dones_buffer: the done flag of each environment
    \* ---- PPOTrainer.compute_gae ----
    last_value,            \* its argument: the bootstrap value of each environment
    gae_result,            \* the value it returned (NoGae before)
    \* ---- PPOTrainer: configuration, counters, parameters ----
    config,                \* self.config: batch_size, save_interval
    epoch,                 \* self.epoch
    total_steps,           \* self.total_steps
    best_reward,           \* self.best_reward
    policy_version,        \* self.policy's parameters: the optimizer steps that shaped them
    optimizer_state,       \* self.optimizer's state: the steps it has taken
    files,                 \* checkpoint_dir: file name -> checkpoint (NoFile when absent)
    saves,                 \* log of the torch.save calls, in order
    \* ---- PPOTrainer.train: its position and locals ----
    pc,                    \* "idle", "collect", "update", "record", "returned", "raised"
    train_calls,           \* the train calls made so far
    step,                  \* collect_rollout: the steps taken in this collection
    obs,                   \* collect_rollout: obs
    current_rewards,       \* collect_rollout: current_rewards
    episode_rewards,       \* collect_rollout: episode_rewards
    rollout_stats,         \* train: rollout_stats
    update_stats,          \* train: update_stats
    history,               \* train: history
    exception,             \* the exception that left the last train call ("" when none)
    loaded,                \* load_checkpoint: the calls made, the file last read and what it held
    api_calls,             \* save_checkpoint, load_checkpoint and constructor calls from outside train
    best_seen,             \* the largest mean reward of the epochs completed since construction (after a load: the best_reward the file recorded)
    \* ---- PPOTrainer.update_policy: the policy loss of one sample ----
    ratio,                 \* ratio
    advantage,             \* batch_advantages
    surrogate,             \* surr1, surr2 and torch.min(surr1, surr2) (NoSurrogate before)
    \* ---- PPOTrainer.update_policy: the minibatch loop ----
    indices,               \* indices: the permutation of the flattened transitions
    num_batches,           \* num_batches
    start,                 \* start: the loop variable
    batches,               \* log of the batch_indices of the iterations made, in order
    loss_totals,           \* total_loss, policy_loss_total, value_loss_total
    update_result          \* what update_policy returned or raised (NoUpdateResult before)

twinVars == <<commands, expected_duration_ms, result, test_results, calls,
              target_frequency_hz, timing_report>>
bufferVars == <<obs_buffer, actions_buffer, rewards_buffer, values_buffer,
                log_probs_buffer, dones_buffer>>
gaeVars == <<last_value, gae_result>>
counterVars == <<epoch, total_steps, best_reward, policy_version, optimizer_state>>
trainVars == <<config, files, saves, pc, train_calls, step, obs, current_rewards,
               episode_rewards, rollout_stats, update_stats, history, exception,
               loaded, api_calls, best_seen>>
trainerVars == <<bufferVars, gaeVars, counterVars, trainVars>>

lossVars == <<ratio, advantage, surrogate>>

batchVars == <<indices, num_batches, start, batches, loss_totals, update_result>>

vars == <<twinVars, trainerVars, lossVars, batchVars>>

(***************************************************************************)
(* Bounds of the model.                                                    *)
(***************************************************************************)
MaxCmds == 2
MaxTargets == 2
MaxCalls == 2
MaxFreqIndex == 60
NumEnvs == 2
StepsPerEpoch == 2
MaxEpochs == 2
MaxTrainCalls == 2
MaxOps == 3

Envs == 1..NumEnvs

(***************************************************************************)
(* The state of the parts a specification leaves alone.                    *)
(***************************************************************************)
NoGae == [advantages |-> <<>>, returns |-> <<>>, computed |-> FALSE]

TwinIdle ==
    /\ commands = <<>>
    /\ expected_duration_ms = 0
    /\ test_results = <<>>
    /\ calls = <<>>
    /\ target_frequency_hz = 0
    /\ timing_report = [valid |-> FALSE]

NoSurrogate == [computed |-> FALSE]

LossIdle ==
    /\ ratio = [k |-> "fin", v |-> 0]
    /\ advantage = 0
    /\ surrogate = NoSurrogate

NoLosses == [loss |-> 0, policy_loss |-> 0, value_loss |-> 0]
NoUpdateResult == [status |-> "none"]

BatchIdle ==
    /\ indices = <<>>
    /\ num_batches = 0
    /\ start = 0
    /\ batches = <<>>
    /\ loss_totals = NoLosses
    /\ update_result = NoUpdateResult

\* float("-inf"), and the rationals n/d (d > 0) a mean reward can be
NegInf == [neg_inf |-> TRUE, num |-> 0, den |-> 1]
NoStats == [mean_reward |-> NegInf, episodes |-> 0]
NoUpdate == [minibatches |-> 0, num_batches |-> 0]
NoHistory == [rewards |-> <<>>, losses |-> <<>>]
NoLoad == [count |-> 0, name |-> <<"none", 0>>, best_reward |-> NegInf, total_steps |-> 0]

\* PPOTrainer.__init__: empty buffers, zeroed counters, best_reward = -inf
BuffersEmpty ==
    /\ obs_buffer = <<>>
    /\ actions_buffer = <<>>
    /\ rewards_buffer = <<>>
    /\ values_buffer = <<>>
    /\ log_probs_buffer = <<>>
    /\ dones_buffer = <<>>

GaeIdle ==
    /\ last_value = <<>>
    /\ gae_result = NoGae

TrainerConstructed ==
    /\ BuffersEmpty
    /\ GaeIdle
    /\ epoch = 0
    /\ total_steps = 0
    /\ best_reward = NegInf
    /\ policy_version = 0
    /\ optimizer_state = 0
    /\ files = <<>>
    /\ saves = <<>>
    /\ pc = "idle"
    /\ train_calls = 0
    /\ step = 0
    /\ obs = 0
    /\ current_rewards = [e \in Envs |-> 0]
    /\ exception = ""
    /\ loaded = NoLoad
    /\ api_calls = 0
    /\ best_seen = NegInf
    /\ episode_rewards = <<>>
    /\ rollout_stats = NoStats
    /\ update_stats = NoUpdate
    /\ history = NoHistory

DefaultConfig == [batch_size |-> NumEnvs * StepsPerEpoch, save_interval |-> 1]

TrainerIdle == TrainerConstructed /\ config = DefaultConfig

(***************************************************************************)
(* Floats.                                                                 *)
(***************************************************************************)
Float(x) == [nan |-> FALSE, v |-> x]
NaN == [nan |-> TRUE, v |-> 0]
FloatLess(a, b) == ~a.nan /\ ~b.nan /\ a.v < b.v
FloatGreater(a, b) == ~a.nan /\ ~b.nan /\ a.v > b.v

\* f"{target:.3f}": the value rounded to the nearest 1/1000, in 1/1000 units.
Format3f(x) == (x.v + 5) \div 10

Abs(x) == IF x < 0 THEN -x ELSE x

(***************************************************************************)
(* DigitalTwinTester.test_command_sequence                                 *)
(***************************************************************************)
JOINT_LIMIT == 31400        \* 3.14 rad
DEFAULT_DURATION == 1667    \* 16.67 ms
TOLERANCE_DEN == 10         \* timing_tolerance = 0.1 = 1 / TOLERANCE_DEN

NoResult == [success |-> FALSE, timing_valid |-> FALSE, trajectory_valid |-> FALSE,
             safety_valid |-> FALSE, actual_duration_ms |-> -1, errors |-> <<>>]

InitialResult == [success |-> TRUE, timing_valid |-> TRUE, trajectory_valid |-> TRUE,
                  safety_valid |-> TRUE, actual_duration_ms |-> 0, errors |-> <<>>]

\* cmd.get("duration_ms", 16.67)
CmdTime(cmd) == IF cmd.has_duration_ms THEN cmd.duration_ms ELSE DEFAULT_DURATION

\* target < -3.14 or target > 3.14
OutOfRange(target) ==
    FloatLess(target, Float(-JOINT_LIMIT)) \/ FloatGreater(target, Float(JOINT_LIMIT))

\* f"Joint {j} target {target:.3f} out of range"
JointError(j, target) == [kind |-> "joint", joint |-> j, value |-> Format3f(target)]

\* f"Timing mismatch: expected {expected_duration_ms}ms, got {total_time}ms"
TimingError(expected, total) == [kind |-> "timing", expected |-> expected, got |-> total]

\* for j, target in enumerate(cmd["joint_targets"]): ... ; j is 0-based in the code
RECURSIVE ValidateJointLimits(_, _, _)
ValidateJointLimits(targets, j, res) ==
    IF j > Len(targets) THEN res
    ELSE ValidateJointLimits(targets, j + 1,
            IF OutOfRange(targets[j])
            THEN [res EXCEPT !.safety_valid = FALSE,
                             !.errors = Append(@, JointError(j - 1, targets[j]))]
            ELSE res)

\* for i, cmd in enumerate(commands): ... ; the loop's state is (result, total_time)
RECURSIVE CommandLoop(_, _, _)
CommandLoop(cmds, i, st) ==
    IF i > Len(cmds) THEN st
    ELSE LET cmd == cmds[i]
             total == st.total_time + CmdTime(cmd)
             res == IF cmd.has_joint_targets
                    THEN ValidateJointLimits(cmd.joint_targets, 1, st.result)
                    ELSE st.result
         IN CommandLoop(cmds, i + 1, [result |-> res, total_time |-> total])

\* mutant: a deviation of exactly 10% counted as a mismatch
TimingMismatchInclusive(total, expected) ==
    Abs(total - expected) * TOLERANCE_DEN >= expected

\* abs(total_time - expected_duration_ms) > expected_duration_ms * timing_tolerance
TimingMismatch(total, expected) == Abs(total - expected) * TOLERANCE_DEN > expected

\* mutant: the timing check clears the safety flag as well
CheckTotalTimingBothFlags(res, total, expected) ==
    IF TimingMismatch(total, expected)
    THEN [res EXCEPT !.timing_valid = FALSE, !.safety_valid = FALSE,
                     !.errors = Append(@, TimingError(expected, total))]
    ELSE res

CheckTotalTiming(res, total, expected) ==
    IF TimingMismatch(total, expected)
    THEN [res EXCEPT !.timing_valid = FALSE,
                     !.errors = Append(@, TimingError(expected, total))]
    ELSE res

\* mutant: "or" for "and"
OverallSuccessEither(res) == res.timing_valid \/ res.safety_valid

\* result["success"] = result["timing_valid"] and result["safety_valid"]
OverallSuccess(res) == res.timing_valid /\ res.safety_valid

\* The value test_command_sequence builds and returns.
TestResult(cmds, expected) ==
    LET st == CommandLoop(cmds, 1, [result |-> InitialResult, total_time |-> 0])
        r1 == [st.result EXCEPT !.actual_duration_ms = st.total_time]
        r2 == CheckTotalTiming(r1, st.total_time, expected)
    IN [r2 EXCEPT !.success = OverallSuccess(r2)]

\* mutant: the history keeps the latest result only
AppendResultReplacing(results, r) == <<r>>

\* self.test_results.append(result)
AppendResult(results, r) == Append(results, r)

TestCommandSequence(cmds, expected) ==
    LET r == TestResult(cmds, expected)
    IN /\ test_results' = AppendResult(test_results, r)
       /\ result' = r
       /\ commands' = cmds
       /\ expected_duration_ms' = expected
       /\ calls' = Append(calls, [commands |-> cmds, expected |-> expected, returned |-> r])
       /\ UNCHANGED <<target_frequency_hz, timing_report, trainerVars, lossVars, batchVars>>

(***************************************************************************)
(* Inputs of test_command_sequence.                                        *)
(***************************************************************************)
\* below the low limit, on the high limit, the 10.0 of the spec's scenario, NaN
TargetValues == {Float(-31401), Float(31400), Float(100000), NaN}
\* no declared duration, 450 ms, 550 ms
DurationChoices == {[has |-> FALSE, d |-> 0], [has |-> TRUE, d |-> 45000],
                    [has |-> TRUE, d |-> 55000]}
ExpectedDurations == {0, 90000, 100000}

Command(hasJ, jt, dc) ==
    [has_joint_targets |-> hasJ, joint_targets |-> jt,
     has_duration_ms |-> dc.has, duration_ms |-> dc.d]

\* the commands whose joint vector has exactly k targets (k = 0: absent or empty)
CommandsWith(k) ==
    {Command(TRUE, jt, dc) : jt \in [1..k -> TargetValues], dc \in DurationChoices}
    \cup (IF k = 0 THEN {Command(FALSE, <<>>, dc) : dc \in DurationChoices} ELSE {})

\* commands = prefix extended by n more commands holding at most b joint targets in all
RECURSIVE DrawCommands(_, _, _)
DrawCommands(n, b, prefix) ==
    IF n = 0 THEN commands = prefix
    ELSE \E k \in 0..b : \E c \in CommandsWith(k) :
            DrawCommands(n - 1, b - k, Append(prefix, c))

(***************************************************************************)
(* SpecTwin: one test_command_sequence call on a fresh validator, over     *)
(* every sequence of at most MaxCmds commands holding at most MaxTargets   *)
(* joint targets, and every expected duration of ExpectedDurations.        *)
(***************************************************************************)
InitTwin ==
    /\ \E n \in 0..MaxCmds : DrawCommands(n, MaxTargets, <<>>)
    /\ expected_duration_ms \in ExpectedDurations
    /\ result = NoResult
    /\ LossIdle
    /\ BatchIdle
    /\ test_results = <<>>
    /\ calls = <<>>
    /\ target_frequency_hz = 0
    /\ timing_report = [valid |-> FALSE]
    /\ TrainerIdle

CallOnce ==
    /\ calls = <<>>
    /\ TestCommandSequence(commands, expected_duration_ms)

NextTwin == CallOnce

SpecTwin == InitTwin /\ [][NextTwin]_vars


(***************************************************************************)
(* What the claims about one call speak of.                                *)
(***************************************************************************)
CallMade == calls # <<>>

\* the joint targets of a command sequence, by (command, joint) position
TargetPositions(cmds) ==
    {p \in (1..Len(cmds)) \X (1..MaxTargets + 1) :
        cmds[p[1]].has_joint_targets /\ p[2] <= Len(cmds[p[1]].joint_targets)}

TargetAt(cmds, p) == cmds[p[1]].joint_targets[p[2]]

\* low <= target <= high
InsideRange(target) ==
    ~target.nan /\ target.v >= -JOINT_LIMIT /\ target.v <= JOINT_LIMIT

OutsidePositions(cmds) == {p \in TargetPositions(cmds) : ~InsideRange(TargetAt(cmds, p))}

JointEntries(errors) == {k \in 1..Len(errors) : errors[k].kind = "joint"}
TimingEntries(errors) == {k \in 1..Len(errors) : errors[k].kind = "timing"}

\* every target outside the range has its entry, naming its index and value
EveryOutsideTargetNamed(cmds, errors) ==
    /\ \A p \in OutsidePositions(cmds) :
          \E k \in JointEntries(errors) :
             errors[k] = [kind |-> "joint", joint |-> p[2] - 1,
                          value |-> Format3f(TargetAt(cmds, p))]
    /\ Cardinality(JointEntries(errors)) = Cardinality(OutsidePositions(cmds))

\* C1 (as claimed): safety_valid is true exactly when every joint target lies
\* inside [-3.14, 3.14], and every target outside it has an error entry that
\* names its joint index and its value.
C1_SafetyIffAllInside ==
    CallMade =>
        /\ result.safety_valid <=> (OutsidePositions(commands) = {})
        /\ EveryOutsideTargetNamed(commands, result.errors)

\* C2: success is true only if timing_valid and safety_valid both are, so a
\* result with safety_valid false has success false whatever its timing is.
C2_SuccessOnlyIfBoth ==
    CallMade =>
        /\ result.success => (result.timing_valid /\ result.safety_valid)
        /\ ~result.safety_valid => ~result.success

\* a safety violation with the timing in the band: success is false all the same
C2_Witness ==
    CallMade /\ ~result.safety_valid /\ result.timing_valid /\ ~result.success

RECURSIVE SumOver(_, _)
SumOver(f, n) == IF n = 0 THEN 0 ELSE f[n] + SumOver(f, n - 1)

\* the sum of the durations the commands declare (a command that declares none adds 0)
DeclaredSum(cmds) ==
    SumOver([i \in 1..Len(cmds) |->
                IF cmds[i].has_duration_ms THEN cmds[i].duration_ms ELSE 0], Len(cmds))

\* the same sum with DEFAULT_DURATION for every command that declares none
EffectiveSum(cmds) ==
    DeclaredSum(cmds)
    + DEFAULT_DURATION * Cardinality({i \in 1..Len(cmds) : ~cmds[i].has_duration_ms})

\* |sum - expected| <= 10% of expected
WithinBand(sum, expected) ==
    /\ sum * TOLERANCE_DEN <= expected * (TOLERANCE_DEN + 1)
    /\ sum * TOLERANCE_DEN >= expected * (TOLERANCE_DEN - 1)

TimingReported(sum) ==
    /\ result.actual_duration_ms = sum
    /\ result.timing_valid <=> WithinBand(sum, expected_duration_ms)
    /\ Cardinality(TimingEntries(result.errors)) = (IF result.timing_valid THEN 0 ELSE 1)
    /\ \A k \in TimingEntries(result.errors) :
          result.errors[k].expected = expected_duration_ms /\ result.errors[k].got = sum

\* C3 (as claimed): actual_duration is the sum of the declared durations and
\* timing_valid is true exactly when that sum is within 10% of the expected
\* duration; outside the band a timing entry is added.
C3_DeclaredSumTimed == CallMade => TimingReported(DeclaredSum(commands))

\* C3 (amended): the same, with 16.67 ms counted for every command that
\* declares no duration.
C3_EffectiveSumTimed == CallMade => TimingReported(EffectiveSum(commands))

\* a deviation of exactly 10%, which is still inside the band
C3_Witness ==
    /\ CallMade
    /\ expected_duration_ms > 0
    /\ Abs(result.actual_duration_ms - expected_duration_ms) * TOLERANCE_DEN
          = expected_duration_ms
    /\ result.timing_valid

\* C6 (as claimed): success=false comes with a non-empty, complete error
\* list: one entry for every joint target outside the range, plus one timing
\* entry exactly when timing_valid is false; success=true comes with none.
C6_ErrorsComplete ==
    CallMade =>
        /\ ~result.success =>
              /\ result.errors # <<>>
              /\ EveryOutsideTargetNamed(commands, result.errors)
              /\ Cardinality(TimingEntries(result.errors))
                    = (IF result.timing_valid THEN 0 ELSE 1)
        /\ result.success => result.errors = <<>>


(***************************************************************************)
(* SpecTwinHistory: up to MaxCalls calls in a row on one validator.        *)
(***************************************************************************)
\* in range for 450 ms, out of range (10.0) for 450 ms, in range for 550 ms
HistoryCommands ==
    {Command(TRUE, <<Float(31400)>>, [has |-> TRUE, d |-> 45000]),
     Command(TRUE, <<Float(100000)>>, [has |-> TRUE, d |-> 45000]),
     Command(TRUE, <<Float(31400)>>, [has |-> TRUE, d |-> 55000])}
HistoryExpected == {90000, 100000}

InitTwinHistory ==
    /\ TwinIdle
    /\ result = NoResult
    /\ LossIdle
    /\ BatchIdle
    /\ TrainerIdle

CallAgain ==
    /\ Len(calls) < MaxCalls
    /\ \E n \in 0..MaxCmds : \E cmds \in [1..n -> HistoryCommands] :
          \E expected \in HistoryExpected : TestCommandSequence(cmds, expected)

NextTwinHistory == CallAgain

SpecTwinHistory == InitTwinHistory /\ [][NextTwinHistory]_vars

JointsOf(cmds) ==
    [i \in 1..Len(cmds) |->
        IF cmds[i].has_joint_targets THEN cmds[i].joint_targets ELSE <<>>]
DurationsOf(cmds) ==
    [i \in 1..Len(cmds) |-> <<cmds[i].has_duration_ms, cmds[i].duration_ms>>]

\* C4: two calls with the same joint targets return the same safety_valid,
\* whatever their durations and expected durations; two calls with the same
\* durations and expected duration return the same timing_valid, whatever
\* their joint targets.
C4_Independent ==
    \A a, b \in 1..Len(calls) :
        /\ JointsOf(calls[a].commands) = JointsOf(calls[b].commands)
              => calls[a].returned.safety_valid = calls[b].returned.safety_valid
        /\ (/\ DurationsOf(calls[a].commands) = DurationsOf(calls[b].commands)
            /\ calls[a].expected = calls[b].expected)
              => calls[a].returned.timing_valid = calls[b].returned.timing_valid

\* the same joint targets timed 900 ms against 900 ms, then 1000 ms against 900 ms
C4_Witness ==
    \E a, b \in 1..Len(calls) :
        /\ JointsOf(calls[a].commands) = JointsOf(calls[b].commands)
        /\ calls[a].returned.timing_valid
        /\ calls[b].returned.actual_duration_ms = 100000
        /\ calls[b].expected = 90000
        /\ ~calls[b].returned.timing_valid
        /\ calls[a].returned.safety_valid = calls[b].returned.safety_valid

\* C5: the history holds one entry per call, in call order, the k-th being
\* what the k-th call returned, earlier ones unchanged by later calls.
C5_HistoryIsCallLog ==
    /\ Len(test_results) = Len(calls)
    /\ \A k \in 1..Len(calls) : test_results[k] = calls[k].returned

\* two calls that returned different results
C5_Witness ==
    /\ Len(test_results) >= 2
    /\ test_results[1] # test_results[2]
    /\ test_results[2] = result

(***************************************************************************)
(* DigitalTwinTester.validate_motor_timing.  Times in ms are rationals     *)
(* [num, den] with den > 0.                                                *)
(***************************************************************************)
MS_PER_SECOND == 1000
COMPUTATION_TIME_MS == 2

Rat(n, d) == [num |-> n, den |-> d]
RatLess(a, b) == a.num * b.den < b.num * a.den
RatSub(a, b) == Rat(a.num * b.den - b.num * a.den, a.den * b.den)

\* mutant: "<=" for "<"
PeriodFitsInclusive(computation, period) == ~RatLess(period, computation)

\* computation_time_ms < target_period_ms
PeriodFits(computation, period) == RatLess(computation, period)

ValidateMotorTiming(frequency) ==
    LET target_period_ms == Rat(MS_PER_SECOND, frequency)
        computation_time_ms == Rat(COMPUTATION_TIME_MS, 1)
    IN [valid |-> PeriodFits(computation_time_ms, target_period_ms),
        target_period_ms |-> target_period_ms,
        computation_time_ms |-> computation_time_ms,
        margin_ms |-> RatSub(target_period_ms, computation_time_ms)]

\* 20 Hz, 40 Hz, ... : 60 Hz, 500 Hz (a period of exactly 2 ms) and beyond
Frequencies == {20 * k : k \in 1..MaxFreqIndex}

InitMotorTiming ==
    /\ commands = <<>>
    /\ expected_duration_ms = 0
    /\ result = NoResult
    /\ LossIdle
    /\ BatchIdle
    /\ test_results = <<>>
    /\ calls = <<>>
    /\ target_frequency_hz \in Frequencies
    /\ timing_report = [valid |-> FALSE]
    /\ TrainerIdle

CallValidateMotorTiming ==
    /\ DOMAIN timing_report = {"valid"}
    /\ timing_report' = ValidateMotorTiming(target_frequency_hz)
    /\ UNCHANGED <<commands, expected_duration_ms, result, test_results, calls,
                   target_frequency_hz, trainerVars, lossVars, batchVars>>

NextMotorTiming == CallValidateMotorTiming

SpecMotorTiming == InitMotorTiming /\ [][NextMotorTiming]_vars

TimingReported7 == DOMAIN timing_report # {"valid"}

\* C7: valid is true exactly when the computation time (2 ms) is strictly
\* less than the control period 1000/frequency ms, and margin_ms is the
\* period minus the computation time.
C7_ValidIffStrictlyLess ==
    TimingReported7 =>
        /\ timing_report.valid
              <=> COMPUTATION_TIME_MS * target_frequency_hz < MS_PER_SECOND
        /\ timing_report.margin_ms.num * target_frequency_hz
              = (MS_PER_SECOND - COMPUTATION_TIME_MS * target_frequency_hz)
                   * timing_report.margin_ms.den

\* 500 Hz: the period equals the computation time, and the report is not valid
C7_Witness ==
    /\ TimingReported7
    /\ target_frequency_hz * COMPUTATION_TIME_MS = MS_PER_SECOND
    /\ ~timing_report.valid
    /\ timing_report.margin_ms.num = 0


(***************************************************************************)
(* PPOTrainer.compute_gae.                                                 *)
(*                                                                         *)
(* Rewards, values and the bootstrap value are integers.  gamma and        *)
(* gae_lambda are configuration values (IsaacLabConfig.gamma, .gae_lambda);*)
(* the estimator's results are kept exact, as polynomials in the two with  *)
(* integer coefficients: p[<<i, j>>] is the coefficient of                 *)
(* gamma^i * gae_lambda^j.  Two results that are equal as polynomials are  *)
(* equal for every value of gamma and gae_lambda.                          *)
(***************************************************************************)
Degrees == 0..(StepsPerEpoch + 1)
Monomials == Degrees \X Degrees

PolyConst(c) == [m \in Monomials |-> IF m = <<0, 0>> THEN c ELSE 0]
PolyAdd(p, q) == [m \in Monomials |-> p[m] + q[m]]
PolyScale(c, p) == [m \in Monomials |-> c * p[m]]
\* self.config.gamma * p
TimesGamma(p) ==
    [m \in Monomials |-> IF m[1] > 0 THEN p[<<m[1] - 1, m[2]>>] ELSE 0]
\* self.config.gae_lambda * p
TimesLambda(p) ==
    [m \in Monomials |-> IF m[2] > 0 THEN p[<<m[1], m[2] - 1>>] ELSE 0]

\* mask = 1.0 - self.dones_buffer[t].float()
Mask(done) == 1 - (IF done THEN 1 ELSE 0)

\* delta = self.rewards_buffer[t] + self.config.gamma * next_value * mask - self.values_buffer[t]
Delta(reward, value, done, next_value) ==
    PolyAdd(PolyAdd(PolyConst(reward),
                    PolyScale(Mask(done), TimesGamma(PolyConst(next_value)))),
            PolyConst(-value))

\* mutant: the carried trace is not masked
GaeStepTraceUnmasked(reward, value, done, next_value, gae) ==
    PolyAdd(Delta(reward, value, done, next_value), TimesLambda(TimesGamma(gae)))

\* gae = delta + self.config.gamma * self.config.gae_lambda * mask * gae
GaeStep(reward, value, done, next_value, gae) ==
    PolyAdd(Delta(reward, value, done, next_value),
            PolyScale(Mask(done), TimesLambda(TimesGamma(gae))))

\* mutant: list.append for list.insert(0, ...)
InsertFirstAppending(list, x) == Append(list, x)

\* advantages.insert(0, gae); returns.insert(0, gae + self.values_buffer[t])
InsertFirst(list, x) == <<x>> \o list

\* for t in reversed(range(len(self.rewards_buffer))): ... ; every tensor
\* operation acts on each environment's element
RECURSIVE GaeLoop(_, _, _, _, _)
GaeLoop(rewards, values, dones, t, st) ==
    IF t = 0 THEN st
    ELSE LET gae == [e \in Envs |->
                        GaeStep(rewards[t][e], values[t][e], dones[t][e],
                                st.next_value[e], st.gae[e])]
             ret == [e \in Envs |-> PolyAdd(gae[e], PolyConst(values[t][e]))]
         IN GaeLoop(rewards, values, dones, t - 1,
                    [advantages |-> InsertFirst(st.advantages, gae),
                     returns |-> InsertFirst(st.returns, ret),
                     gae |-> gae,
                     next_value |-> values[t]])

ComputeGae(rewards, values, dones, bootstrap) ==
    LET st == GaeLoop(rewards, values, dones, Len(rewards),
                      [advantages |-> <<>>, returns |-> <<>>,
                       gae |-> [e \in Envs |-> PolyConst(0)],
                       next_value |-> bootstrap])
    IN [advantages |-> st.advantages, returns |-> st.returns, computed |-> TRUE]

(***************************************************************************)
(* SpecGae: compute_gae on every buffer of 1..StepsPerEpoch steps, with    *)
(* every pattern of done flags and every bootstrap value of                *)
(* BootstrapValues.  The reward and the value of a buffer position are     *)
(* told apart from those of every other position.                          *)
(***************************************************************************)
GaeReward(t, e) == 3 * t + e
GaeValue(t, e) == 10 * t + 2 * e
BootstrapValues == {7, 11}

InitGae ==
    /\ TwinIdle
    /\ result = NoResult
    /\ LossIdle
    /\ BatchIdle
    /\ obs_buffer = <<>> /\ actions_buffer = <<>> /\ log_probs_buffer = <<>>
    /\ config = DefaultConfig
    /\ epoch = 0 /\ total_steps = 0 /\ best_reward = NegInf
    /\ policy_version = 0 /\ optimizer_state = 0
    /\ files = <<>> /\ saves = <<>> /\ pc = "idle" /\ train_calls = 0
    /\ step = 0 /\ obs = 0 /\ current_rewards = [e \in Envs |-> 0]
    /\ episode_rewards = <<>> /\ rollout_stats = NoStats
    /\ update_stats = NoUpdate /\ history = NoHistory
    /\ exception = "" /\ loaded = NoLoad /\ api_calls = 0 /\ best_seen = NegInf
    /\ \E n \in 1..StepsPerEpoch :
          /\ rewards_buffer = [t \in 1..n |-> [e \in Envs |-> GaeReward(t, e)]]
          /\ values_buffer = [t \in 1..n |-> [e \in Envs |-> GaeValue(t, e)]]
          /\ dones_buffer \in [1..n -> [Envs -> BOOLEAN]]
    /\ last_value \in [Envs -> BootstrapValues]
    /\ gae_result = NoGae

CallComputeGae ==
    /\ ~gae_result.computed
    /\ gae_result' = ComputeGae(rewards_buffer, values_buffer, dones_buffer, last_value)
    /\ UNCHANGED <<twinVars, lossVars, batchVars, bufferVars, last_value, counterVars, trainVars>>

NextGae == CallComputeGae

SpecGae == InitGae /\ [][NextGae]_vars

\* C9: at every step whose done flag is true, the advantage is reward - value
\* and the return is the reward: no gamma term is left, whatever the bootstrap
\* value and the later steps are.
C9_DoneStepAdvantage ==
    gae_result.computed =>
        \A t \in 1..Len(rewards_buffer) : \A e \in Envs :
            dones_buffer[t][e] =>
                /\ gae_result.advantages[t][e]
                      = PolyConst(rewards_buffer[t][e] - values_buffer[t][e])
                /\ gae_result.returns[t][e] = PolyConst(rewards_buffer[t][e])

\* a done step that is followed by further steps, in a buffer with a bootstrap
C9_Witness ==
    /\ gae_result.computed
    /\ Len(rewards_buffer) >= 2
    /\ \E e \in Envs :
          /\ dones_buffer[1][e]
          /\ ~dones_buffer[2][e]
          /\ gae_result.advantages[1][e] = PolyConst(GaeReward(1, e) - GaeValue(1, e))
          /\ gae_result.advantages[2][e] # PolyConst(rewards_buffer[2][e] - values_buffer[2][e])

\* The recursion of the spec for one environment e, at step t: the advantage
\* of step t from that of step t + 1, with next_value the value of step t + 1
\* or, at the last step, the bootstrap value.
RECURSIVE SpecAdvantage(_, _)
SpecAdvantage(e, t) ==
    IF t > Len(rewards_buffer) THEN PolyConst(0)
    ELSE LET mask == IF dones_buffer[t][e] THEN 0 ELSE 1
             next_value == IF t = Len(rewards_buffer) THEN last_value[e]
                           ELSE values_buffer[t + 1][e]
             delta == PolyAdd(PolyConst(rewards_buffer[t][e] - values_buffer[t][e]),
                              TimesGamma(PolyConst(next_value * mask)))
         IN PolyAdd(delta, TimesGamma(TimesLambda(PolyScale(mask, SpecAdvantage(e, t + 1)))))

\* C10: position t of the output holds, for every environment, the advantage
\* and return of the spec's reverse-time recursion for step t, computed from
\* that environment's rewards, values, done flags and bootstrap value alone.
C10_MatchesRecursion ==
    gae_result.computed =>
        /\ Len(gae_result.advantages) = Len(rewards_buffer)
        /\ Len(gae_result.returns) = Len(rewards_buffer)
        /\ \A t \in 1..Len(rewards_buffer) : \A e \in Envs :
              /\ gae_result.advantages[t][e] = SpecAdvantage(e, t)
              /\ gae_result.returns[t][e]
                    = PolyAdd(SpecAdvantage(e, t), PolyConst(values_buffer[t][e]))

\* two steps with different advantages, and two environments that differ
C10_Witness ==
    /\ gae_result.computed
    /\ Len(rewards_buffer) >= 2
    /\ gae_result.advantages[1] # gae_result.advantages[2]
    /\ \E t \in 1..Len(rewards_buffer) :
          gae_result.advantages[t][1] # gae_result.advantages[t][2]
    /\ \A t \in 1..Len(rewards_buffer) : \A e \in Envs : ~dones_buffer[t][e]


(***************************************************************************)
(* PPOTrainer.update_policy: the clipped surrogate of one sample.          *)
(*                                                                         *)
(* A tensor element is a float: finite (k = "fin", v its value), infinite  *)
(* (k = "inf", v its sign) or NaN.  ratio is counted in tenths, the        *)
(* advantage in units, a surrogate in tenths of a unit.                    *)
(***************************************************************************)
RATIO_ONE == 10
CLIP_RATIO == 2

Fin(v) == [k |-> "fin", v |-> v]
PosInf == [k |-> "inf", v |-> 1]
ExtNaN == [k |-> "nan", v |-> 0]

Sign(v) == IF v > 0 THEN 1 ELSE IF v < 0 THEN -1 ELSE 0

\* a * b on floats: inf * 0 is NaN
ExtMul(a, b) ==
    IF a.k = "nan" \/ b.k = "nan" THEN ExtNaN
    ELSE IF a.k = "fin" /\ b.k = "fin" THEN Fin(a.v * b.v)
    ELSE IF Sign(a.v) * Sign(b.v) = 0 THEN ExtNaN
    ELSE [k |-> "inf", v |-> Sign(a.v) * Sign(b.v)]

\* a < b on floats: false when either is NaN
ExtLess(a, b) ==
    /\ a.k # "nan"
    /\ b.k # "nan"
    /\ IF a.k = "fin" /\ b.k = "fin" THEN a.v < b.v
       ELSE IF a.k = "inf" /\ b.k = "inf" THEN a.v < b.v
       ELSE IF a.k = "inf" THEN a.v < 0
       ELSE b.v > 0

\* torch.clamp(x, lo, hi): NaN stays NaN
Clamp(x, lo, hi) ==
    IF x.k = "nan" THEN x
    ELSE IF ExtLess(x, Fin(lo)) THEN Fin(lo)
    ELSE IF ExtLess(Fin(hi), x) THEN Fin(hi)
    ELSE x

\* mutant: the larger of the two surrogates
ExtMax(a, b) ==
    IF a.k = "nan" THEN a
    ELSE IF b.k = "nan" THEN b
    ELSE IF ExtLess(a, b) THEN b ELSE a

\* torch.min(a, b): NaN if either is NaN
ExtMin(a, b) ==
    IF a.k = "nan" THEN a
    ELSE IF b.k = "nan" THEN b
    ELSE IF ExtLess(b, a) THEN b ELSE a

\* surr1, surr2 and torch.min(surr1, surr2) for one sample
Surrogate(r, adv) ==
    LET surr1 == ExtMul(r, Fin(adv))
        surr2 == ExtMul(Clamp(r, RATIO_ONE - CLIP_RATIO, RATIO_ONE + CLIP_RATIO),
                        Fin(adv))
    IN [computed |-> TRUE, surr1 |-> surr1, surr2 |-> surr2,
        term |-> ExtMin(surr1, surr2)]

\* (new_log_probs - batch_old_log_probs).exp(): never negative, 0 on
\* underflow, inf on overflow, NaN from NaN log-probabilities
Ratios == {Fin(0), Fin(5), Fin(8), Fin(10), Fin(12), Fin(13), Fin(100), PosInf, ExtNaN}
Advantages == {-30, -10, -1, 0, 1, 10, 30}

InitLoss ==
    /\ TwinIdle
    /\ result = NoResult
    /\ TrainerIdle
    /\ ratio \in Ratios
    /\ advantage \in Advantages
    /\ surrogate = NoSurrogate
    /\ BatchIdle

ComputeSurrogate ==
    /\ ~surrogate.computed
    /\ surrogate' = Surrogate(ratio, advantage)
    /\ UNCHANGED <<twinVars, trainerVars, batchVars, ratio, advantage>>

NextLoss == ComputeSurrogate

SpecLoss == InitLoss /\ [][NextLoss]_vars

RatioBelow == ExtLess(ratio, Fin(RATIO_ONE - CLIP_RATIO))
RatioAbove == ExtLess(Fin(RATIO_ONE + CLIP_RATIO), ratio)

\* |x| <= (1 + eps) * |advantage|, x in tenths of a unit
WithinClipBound(x) ==
    /\ x.k = "fin"
    /\ Abs(x.v) <= (RATIO_ONE + CLIP_RATIO) * Abs(advantage)

\* C11 (as claimed): for every advantage and every ratio outside
\* [1 - eps, 1 + eps], min(surr1, surr2) is the clipped branch, so its
\* magnitude is at most (1 + eps) * |advantage|.
C11_ClippedBranchAlways ==
    (surrogate.computed /\ (RatioBelow \/ RatioAbove)) =>
        /\ surrogate.term = surrogate.surr2
        /\ WithinClipBound(surrogate.term)

\* C11 (amended): outside the band the term is the clipped branch, and bounded
\* by (1 + eps) * |advantage|, when the ratio is above with a positive
\* advantage or below with a negative one; when the ratio is below with a
\* positive advantage or above with a negative one it is the unclipped
\* ratio * advantage, which lies below the clipped branch.
C11_ClippedBranchBySign ==
    surrogate.computed =>
        /\ ((RatioAbove /\ advantage > 0) \/ (RatioBelow /\ advantage < 0)) =>
              /\ surrogate.term = surrogate.surr2
              /\ WithinClipBound(surrogate.term)
        /\ ((RatioBelow /\ advantage > 0) \/ (RatioAbove /\ advantage < 0)) =>
              /\ surrogate.term = ExtMul(ratio, Fin(advantage))
              /\ ExtLess(surrogate.term, surrogate.surr2)

\* an overflowed ratio with a positive advantage: clipped and bounded
C11_Witness ==
    /\ surrogate.computed
    /\ ratio = PosInf
    /\ advantage = 30
    /\ surrogate.term = Fin(360)

(***************************************************************************)
(* PPOTrainer: the epoch loop of train, with collect_rollout taken one     *)
(* environment step at a time.                                             *)
(*                                                                         *)
(* The policy network is opaque: its parameters are known by their version *)
(* (the number of optimizer steps that shaped them), an observation by the *)
(* number of environment steps since env.reset(), and the critic's value   *)
(* of an observation by a number that tells (version, observation) pairs   *)
(* apart.  A mean reward is an exact rational in lowest terms.             *)
(***************************************************************************)
RECURSIVE Gcd(_, _)
Gcd(a, b) == IF b = 0 THEN Abs(a) ELSE Gcd(b, a % b)

\* n / d as float: equal quotients are equal values
Quotient(n, d) ==
    LET g == Gcd(n, d) IN [neg_inf |-> FALSE, num |-> n \div g, den |-> d \div g]

\* mutant: ">=" for ">"
RewardAtLeast(a, b) ==
    /\ ~a.neg_inf
    /\ (b.neg_inf \/ a.num * b.den >= b.num * a.den)

\* a > b on floats that may be -inf
RewardGreater(a, b) ==
    /\ ~a.neg_inf
    /\ (b.neg_inf \/ a.num * b.den > b.num * a.den)

RECURSIVE SumSeq(_)
SumSeq(q) == IF q = <<>> THEN 0 ELSE Head(q) + SumSeq(Tail(q))

Max(a, b) == IF a >= b THEN a ELSE b

\* mutant: the parameters move after every environment step
CriticValueDrifting(version, observation) ==
    (version + observation) * (StepsPerEpoch + 1) + observation

\* value = self.critic(obs) under the parameters of the given version
CriticValue(version, observation) == version * (StepsPerEpoch + 1) + observation

\* what env.step returns for one environment
EnvOutcomes == {[reward |-> 1, done |-> FALSE], [reward |-> 2, done |-> TRUE]}

\* IsaacLabConfig: the batch sizes and save intervals a trainer is built with
BatchSizes == {NumEnvs * StepsPerEpoch - 1, NumEnvs * StepsPerEpoch,
               NumEnvs * StepsPerEpoch + 1}
SaveIntervals == {1, 2}

\* mutant: the running episode returns are carried into the next collection
BeginCollectionCarrying ==
    /\ obs' = 0
    /\ episode_rewards' = <<>>
    /\ current_rewards' = current_rewards
    /\ step' = 0

\* obs = env.reset(); episode_rewards = []; current_rewards = torch.zeros(num_envs)
BeginCollection ==
    /\ obs' = 0
    /\ episode_rewards' = <<>>
    /\ current_rewards' = [e \in Envs |-> 0]
    /\ step' = 0

\* train: the call, up to the first environment step of epoch 0
StartTrain ==
    /\ pc \in {"idle", "returned", "raised"}
    /\ train_calls < MaxTrainCalls
    /\ train_calls + api_calls < MaxOps
    /\ train_calls' = train_calls + 1
    /\ history' = NoHistory
    /\ exception' = ""
    /\ IF MaxEpochs = 0
       THEN /\ pc' = "returned"
            /\ UNCHANGED <<epoch, obs, episode_rewards, current_rewards, step>>
       ELSE /\ pc' = "collect"
            /\ epoch' = 0
            /\ BeginCollection
    /\ UNCHANGED <<twinVars, lossVars, batchVars, bufferVars, gaeVars, total_steps, best_reward,
                   policy_version, optimizer_state, config, files, saves,
                   rollout_stats, update_stats, loaded, api_calls,
                   best_seen>>

RECURSIVE DoneRewards(_, _, _)
\* current_rewards[done].tolist(): the entries of the done environments, in order
DoneRewards(rewards, done, e) ==
    IF e > NumEnvs THEN <<>>
    ELSE (IF done[e] THEN <<rewards[e]>> ELSE <<>>) \o DoneRewards(rewards, done, e + 1)

\* mutant: the mean is taken over the environments
RolloutStatsPerEnv(episodes) ==
    [mean_reward |-> Quotient(SumSeq(episodes), NumEnvs),
     episodes |-> Len(episodes)]

\* the statistics collect_rollout returns
RolloutStats(episodes) ==
    [mean_reward |-> Quotient(SumSeq(episodes), Max(Len(episodes), 1)),
     episodes |-> Len(episodes)]

\* mutant: one step counted per iteration
CountStepsOnce(total) == total + 1

\* self.total_steps += self.config.num_envs
CountSteps(total) == total + NumEnvs

\* collect_rollout: one iteration of its loop; the last one returns the statistics
CollectStep ==
    /\ pc = "collect"
    /\ step < StepsPerEpoch
    /\ \E outcome \in [Envs -> EnvOutcomes] :
          LET reward == [e \in Envs |-> outcome[e].reward]
              done == [e \in Envs |-> outcome[e].done]
              summed == [e \in Envs |-> current_rewards[e] + reward[e]]
              episodes == episode_rewards \o DoneRewards(summed, done, 1)
          IN /\ obs_buffer' = Append(obs_buffer, obs)
             /\ actions_buffer' = Append(actions_buffer, policy_version)
             /\ rewards_buffer' = Append(rewards_buffer, reward)
             /\ values_buffer' =
                   Append(values_buffer, [e \in Envs |-> CriticValue(policy_version, obs)])
             /\ log_probs_buffer' = Append(log_probs_buffer, policy_version)
             /\ dones_buffer' = Append(dones_buffer, done)
             /\ episode_rewards' = episodes
             /\ current_rewards' = [e \in Envs |-> IF done[e] THEN 0 ELSE summed[e]]
             /\ obs' = obs + 1
             /\ total_steps' = CountSteps(total_steps)
             /\ step' = step + 1
             /\ IF step + 1 = StepsPerEpoch
                THEN pc' = "update" /\ rollout_stats' = RolloutStats(episodes)
                ELSE pc' = "collect" /\ UNCHANGED rollout_stats
    /\ UNCHANGED <<twinVars, lossVars, batchVars, gaeVars, epoch, best_reward, policy_version,
                   optimizer_state, config, files, saves, train_calls,
                   update_stats, history, exception, loaded, api_calls,
                   best_seen>>

\* collect_rollout: env.step raises; the exception leaves train
EnvStepRaises ==
    /\ pc = "collect"
    /\ step < StepsPerEpoch
    /\ pc' = "raised"
    /\ exception' = "EnvError"
    /\ UNCHANGED <<twinVars, lossVars, batchVars, bufferVars, gaeVars, counterVars, config,
                   files, saves, train_calls, step, obs, current_rewards,
                   episode_rewards, rollout_stats, update_stats, history, loaded,
                   api_calls,
                   best_seen>>

\* update_policy: one optimizer step per minibatch, then the buffers are
\* cleared, then the losses are divided by num_batches
UpdatePolicy ==
    /\ pc = "update"
    /\ LET n == NumEnvs * Len(obs_buffer)
           whole == n \div config.batch_size
           minibatches == (n + config.batch_size - 1) \div config.batch_size
       IN /\ last_value' =
                [e \in Envs |-> CriticValue(policy_version, obs_buffer[Len(obs_buffer)])]
          /\ policy_version' = policy_version + minibatches
          /\ optimizer_state' = optimizer_state + minibatches
          /\ obs_buffer' = <<>>
          /\ actions_buffer' = <<>>
          /\ rewards_buffer' = <<>>
          /\ values_buffer' = <<>>
          /\ log_probs_buffer' = <<>>
          /\ dones_buffer' = <<>>
          /\ IF whole = 0
             THEN /\ pc' = "raised"
                  /\ exception' = "ZeroDivisionError"
                  /\ UNCHANGED update_stats
             ELSE /\ pc' = "record"
                  /\ update_stats' = [minibatches |-> minibatches, num_batches |-> whole]
                  /\ UNCHANGED exception
    /\ UNCHANGED <<twinVars, lossVars, batchVars, gae_result, epoch, total_steps,
                   best_reward, config, files, saves, train_calls, step, obs, current_rewards,
                   episode_rewards, rollout_stats, history, loaded, api_calls,
                   best_seen>>

CheckpointName(e) == <<"checkpoint", e>>
BestName == <<"best_policy", 0>>

\* the larger of two mean rewards, -inf being below every mean
LargerReward(a, b) ==
    IF a.neg_inf THEN b
    ELSE IF b.neg_inf THEN a
    ELSE IF a.num * b.den >= b.num * a.den THEN a ELSE b

\* the dictionary save_checkpoint writes
Checkpoint(best) ==
    [epoch |-> epoch, policy_state |-> policy_version,
     optimizer_state |-> optimizer_state, best_reward |-> best,
     total_steps |-> total_steps]

\* mutant: an existing file is left as it is
WriteFileOnce(dir, name, content) ==
    [n \in DOMAIN dir \cup {name} |-> IF n \in DOMAIN dir THEN dir[n] ELSE content]

\* torch.save(checkpoint, path): the file is created or overwritten
WriteFile(dir, name, content) ==
    [n \in DOMAIN dir \cup {name} |-> IF n = name THEN content ELSE dir[n]]

\* mutant: best_reward follows the latest epoch
BestAfterLatest(mean, best) == mean

\* if mean_reward > self.best_reward: self.best_reward = mean_reward
BestAfter(mean, best) == IF RewardGreater(mean, best) THEN mean ELSE best

\* mutant: the loop runs one epoch more
EpochsRemainInclusive(e) == e < MaxEpochs

\* for epoch in range(max_epochs): another epoch follows epoch e
EpochsRemain(e) == e + 1 < MaxEpochs

\* train: from the return of update_policy to the first environment step of
\* the next epoch, or to the return of train
FinishEpoch ==
    /\ pc = "record"
    /\ LET mean == rollout_stats.mean_reward
           periodic == epoch % config.save_interval = 0
           improved == RewardGreater(mean, best_reward)
           best == BestAfter(mean, best_reward)
           files1 == IF periodic
                     THEN WriteFile(files, CheckpointName(epoch), Checkpoint(best_reward))
                     ELSE files
           saves1 == IF periodic
                     THEN Append(saves, [name |-> CheckpointName(epoch),
                                         content |-> Checkpoint(best_reward)])
                     ELSE saves
       IN /\ history' = [rewards |-> Append(history.rewards, mean),
                         losses |-> Append(history.losses, update_stats)]
          /\ best_reward' = best
          /\ best_seen' = LargerReward(best_seen, mean)
          /\ files' = IF improved THEN WriteFile(files1, BestName, Checkpoint(best))
                      ELSE files1
          /\ saves' = IF improved
                      THEN Append(saves1, [name |-> BestName, content |-> Checkpoint(best)])
                      ELSE saves1
    /\ IF EpochsRemain(epoch)
       THEN /\ pc' = "collect"
            /\ epoch' = epoch + 1
            /\ BeginCollection
       ELSE /\ pc' = "returned"
            /\ UNCHANGED <<epoch, obs, episode_rewards, current_rewards, step>>
    /\ UNCHANGED <<twinVars, lossVars, batchVars, bufferVars, gaeVars, total_steps, policy_version,
                   optimizer_state, config, train_calls, rollout_stats, update_stats,
                   exception, loaded, api_calls>>

\* no train call is running: the caller may use the trainer
Quiescent == pc \in {"idle", "returned", "raised"}

\* save_checkpoint called from outside train
SaveCheckpoint(best) ==
    /\ Quiescent
    /\ train_calls + api_calls < MaxOps
    /\ api_calls' = api_calls + 1
    /\ LET name == IF best THEN BestName ELSE CheckpointName(epoch)
       IN /\ files' = WriteFile(files, name, Checkpoint(best_reward))
          /\ saves' = Append(saves, [name |-> name, content |-> Checkpoint(best_reward)])
    /\ UNCHANGED <<twinVars, lossVars, batchVars, bufferVars, gaeVars, counterVars, config, pc,
                   train_calls, step, obs, current_rewards, episode_rewards,
                   rollout_stats, update_stats, history, exception, loaded, best_seen>>

\* mutant: total_steps is not restored
LoadCheckpointKeepingSteps(name) ==
    /\ Quiescent
    /\ train_calls + api_calls < MaxOps
    /\ name \in DOMAIN files
    /\ api_calls' = api_calls + 1
    /\ policy_version' = files[name].policy_state
    /\ optimizer_state' = files[name].optimizer_state
    /\ epoch' = files[name].epoch
    /\ best_reward' = files[name].best_reward
    /\ loaded' = [count |-> loaded.count + 1, name |-> name,
                  best_reward |-> files[name].best_reward,
                  total_steps |-> files[name].total_steps]
    /\ best_seen' = files[name].best_reward
    /\ UNCHANGED <<twinVars, lossVars, batchVars, bufferVars, gaeVars, config, files, saves, pc,
                   train_calls, step, obs, current_rewards, episode_rewards,
                   rollout_stats, update_stats, history, exception, total_steps>>

\* load_checkpoint of a file of checkpoint_dir
LoadCheckpoint(name) ==
    /\ Quiescent
    /\ train_calls + api_calls < MaxOps
    /\ name \in DOMAIN files
    /\ api_calls' = api_calls + 1
    /\ policy_version' = files[name].policy_state
    /\ optimizer_state' = files[name].optimizer_state
    /\ epoch' = files[name].epoch
    /\ best_reward' = files[name].best_reward
    /\ total_steps' = files[name].total_steps
    /\ loaded' = [count |-> loaded.count + 1, name |-> name,
                  best_reward |-> files[name].best_reward,
                  total_steps |-> files[name].total_steps]
    /\ best_seen' = files[name].best_reward
    /\ UNCHANGED <<twinVars, lossVars, batchVars, bufferVars, gaeVars, config, files, saves, pc,
                   train_calls, step, obs, current_rewards, episode_rewards,
                   rollout_stats, update_stats, history, exception>>

\* PPOTrainer(config, policy): a fresh trainer with a fresh policy takes the
\* place of the old one; checkpoint_dir is kept (mkdir(exist_ok=True))
Construct ==
    /\ Quiescent
    /\ train_calls + api_calls < MaxOps
    /\ api_calls' = api_calls + 1
    /\ obs_buffer' = <<>>
    /\ actions_buffer' = <<>>
    /\ rewards_buffer' = <<>>
    /\ values_buffer' = <<>>
    /\ log_probs_buffer' = <<>>
    /\ dones_buffer' = <<>>
    /\ epoch' = 0
    /\ total_steps' = 0
    /\ best_reward' = NegInf
    /\ policy_version' = 0
    /\ optimizer_state' = 0
    /\ pc' = "idle"
    /\ exception' = ""
    /\ loaded' = [NoLoad EXCEPT !.count = loaded.count]
    /\ best_seen' = NegInf
    /\ UNCHANGED <<twinVars, lossVars, batchVars, gaeVars, config, files, saves, train_calls,
                   step, obs, current_rewards, episode_rewards, rollout_stats,
                   update_stats, history>>

\* train: KeyboardInterrupt arrives between two environment steps, or between
\* update_policy and the checkpoint writes; nothing catches it
Interrupt ==
    /\ pc \in {"collect", "record"}
    /\ pc' = "raised"
    /\ exception' = "KeyboardInterrupt"
    /\ UNCHANGED <<twinVars, lossVars, batchVars, bufferVars, gaeVars, counterVars, config,
                   files, saves, train_calls, step, obs, current_rewards,
                   episode_rewards, rollout_stats, update_stats, history, loaded,
                   api_calls,
                   best_seen>>

\* update_policy: KeyboardInterrupt arrives in the minibatch loop, after any
\* number of whole optimizer steps and before the buffers are cleared
InterruptUpdate ==
    /\ pc = "update"
    /\ LET n == NumEnvs * Len(obs_buffer)
           minibatches == (n + config.batch_size - 1) \div config.batch_size
       IN \E done \in 0..(minibatches - 1) :
             /\ policy_version' = policy_version + done
             /\ optimizer_state' = optimizer_state + done
    /\ last_value' = [e \in Envs |-> CriticValue(policy_version, obs_buffer[Len(obs_buffer)])]
    /\ pc' = "raised"
    /\ exception' = "KeyboardInterrupt"
    /\ UNCHANGED <<twinVars, lossVars, batchVars, bufferVars, gae_result, epoch, total_steps,
                   best_reward, config, files, saves, train_calls, step, obs,
                   current_rewards, episode_rewards, rollout_stats, update_stats,
                   history, loaded, api_calls,
                   best_seen>>

Init ==
    /\ TwinIdle
    /\ result = NoResult
    /\ LossIdle
    /\ BatchIdle
    /\ TrainerConstructed
    /\ config \in [batch_size : BatchSizes, save_interval : SaveIntervals]

Next ==
    \/ StartTrain
    \/ CollectStep
    \/ EnvStepRaises
    \/ UpdatePolicy
    \/ FinishEpoch
    \/ Interrupt
    \/ InterruptUpdate
    \/ \E best \in BOOLEAN : SaveCheckpoint(best)
    \/ \E name \in DOMAIN files : LoadCheckpoint(name)
    \/ Construct

Spec == Init /\ [][Next]_vars

\* all six buffers hold exactly StepsPerEpoch entries, each covering every environment
BuffersHoldOneEpoch ==
    /\ Len(obs_buffer) = StepsPerEpoch
    /\ Len(actions_buffer) = StepsPerEpoch
    /\ Len(rewards_buffer) = StepsPerEpoch
    /\ Len(values_buffer) = StepsPerEpoch
    /\ Len(log_probs_buffer) = StepsPerEpoch
    /\ Len(dones_buffer) = StepsPerEpoch
    /\ \A t \in 1..StepsPerEpoch :
          /\ DOMAIN rewards_buffer[t] = Envs
          /\ DOMAIN values_buffer[t] = Envs
          /\ DOMAIN dones_buffer[t] = Envs

\* C8 (as claimed): in every epoch, when collection has finished and the
\* optimizer pass has not started, the buffers hold exactly num_envs x
\* steps_per_epoch transitions, whatever earlier epochs did.
C8_BufferHoldsOneEpoch == pc = "update" => BuffersHoldOneEpoch


\* the trainer state the latest torch.save to a file of that name recorded
LastSaved(name) ==
    LET written == {i \in 1..Len(saves) : saves[i].name = name}
        latest == CHOOSE i \in written : \A j \in written : j <= i
    IN saves[latest].content

\* C12: load_checkpoint of a written file leaves epoch, best_reward and
\* total_steps, and the policy parameters and optimizer state, equal to what
\* they were when the file was last saved, in the same or in a fresh trainer;
\* the policy then values every observation as it did at save time.
C12_RoundTrip ==
    [][loaded'.count # loaded.count =>
          LET saved == LastSaved(loaded'.name)
          IN /\ epoch' = saved.epoch
             /\ best_reward' = saved.best_reward
             /\ total_steps' = saved.total_steps
             /\ policy_version' = saved.policy_state
             /\ optimizer_state' = saved.optimizer_state
             /\ \A o \in 0..StepsPerEpoch :
                   CriticValue(policy_version', o) = CriticValue(saved.policy_state, o)]_vars

\* a fresh trainer that loaded a checkpoint written by a trained one
C12_Witness ==
    /\ pc = "idle"
    /\ loaded.count = 1
    /\ loaded.name \in DOMAIN files
    /\ total_steps = LastSaved(loaded.name).total_steps
    /\ total_steps > 0
    /\ policy_version = LastSaved(loaded.name).policy_state
    /\ policy_version > 0
    /\ best_reward = LastSaved(loaded.name).best_reward
    /\ best_reward # NegInf

\* the first train call of a fresh trainer, with no failing environment step
\* and no interruption
FirstUndisturbedRun ==
    /\ train_calls = 1
    /\ api_calls = 0
    /\ exception \notin {"EnvError", "KeyboardInterrupt"}

\* C13 (as claimed): with save_interval = 1 a train run over MaxEpochs epochs
\* completes without raising and has produced exactly MaxEpochs checkpoints.
C13_OneCheckpointPerEpoch ==
    (FirstUndisturbedRun /\ config.save_interval = 1) =>
        /\ pc # "raised"
        /\ pc = "returned" => Len(saves) = MaxEpochs

Running == pc \in {"collect", "update", "record"}

\* the first train call of a trainer that has loaded no checkpoint
FreshTrainerRun == train_calls = 1 /\ loaded.count = 0

\* C14: in the first train call of a fresh trainer total_steps is num_envs x
\* steps_per_epoch for every completed epoch plus num_envs for every step
\* collected since; and in any train call total_steps changes only by a
\* collected step, which adds num_envs: starting a call, the optimizer pass
\* and checkpoint writes leave it unchanged.
C14_TotalSteps ==
    /\ [](FreshTrainerRun =>
            /\ pc = "collect" =>
                  total_steps = (epoch * StepsPerEpoch + step) * NumEnvs
            /\ pc \in {"update", "record"} =>
                  total_steps = (epoch + 1) * StepsPerEpoch * NumEnvs
            /\ pc = "returned" => total_steps = MaxEpochs * StepsPerEpoch * NumEnvs)
    /\ [][(Running \/ Running' \/ saves' # saves) =>
             IF pc = "collect" /\ step' = step + 1
             THEN total_steps' = total_steps + NumEnvs
             ELSE total_steps' = total_steps]_vars

\* a complete first run: every epoch collected, updated and saved
C14_Witness ==
    /\ FreshTrainerRun
    /\ pc = "returned"
    /\ epoch = MaxEpochs - 1
    /\ total_steps = MaxEpochs * StepsPerEpoch * NumEnvs
    /\ Len(saves) >= MaxEpochs

\* mean reward a exceeds mean reward b
Exceeds(a, b) == a # b /\ LargerReward(a, b) = a

\* the step that ends an epoch: the statistics are recorded and the
\* checkpoints, if any, written
EpochEnds == pc = "record" /\ pc' \in {"collect", "returned"}

\* C15: in every epoch of train, in a trainer that has loaded no checkpoint,
\* a checkpoint is written if and only if epoch % save_interval = 0 or the
\* epoch's mean reward exceeds the best mean reward of all earlier epochs; a
\* mean reward equal to the best one does not count, and no other step of
\* train writes a checkpoint.
C15_CheckpointWhenDue ==
    [][loaded.name = NoLoad.name =>
          /\ EpochEnds =>
                LET mean == rollout_stats.mean_reward
                    periodic == epoch % config.save_interval = 0
                IN /\ saves' # saves <=> (periodic \/ Exceeds(mean, best_seen))
                   /\ (~periodic /\ mean = best_seen) => saves' = saves
          /\ (Running /\ ~EpochEnds) => saves' = saves]_vars

\* an epoch that wrote nothing: not periodic, its mean reward equal to the best
C15_Witness ==
    /\ FreshTrainerRun
    /\ pc = "returned"
    /\ config.save_interval = 2
    /\ Len(history.rewards) = 2
    /\ history.rewards[2] = history.rewards[1]
    /\ history.rewards[2] # [neg_inf |-> FALSE, num |-> 0, den |-> 1]
    /\ Len(saves) = 2

\* train has been left by a KeyboardInterrupt and the caller has done nothing since
Interrupted == pc = "raised" /\ exception = "KeyboardInterrupt"

\* C16 (as claimed): when train is interrupted from outside, a checkpoint of
\* the trainer's state at the interruption has been written by the time train
\* exits, and no optimizer step is applied after the interruption.
C16_InterruptSavesCheckpoint ==
    /\ []((Interrupted /\ api_calls = 0) =>
             /\ saves # <<>>
             /\ saves[Len(saves)].content = Checkpoint(best_reward))
    /\ [][(Interrupted /\ Interrupted') =>
             /\ policy_version' = policy_version
             /\ optimizer_state' = optimizer_state]_vars

\* the trainer last loaded a checkpoint and has not been replaced since
Resumed == loaded.name # NoLoad.name

\* C17: after load_checkpoint(c), in every later state and train call of that
\* trainer, best_reward is not below the best_reward stored in c and
\* total_steps is not below the total_steps stored in c; starting a train call
\* resets neither; a collected step adds num_envs to total_steps and nothing
\* else in train changes it; and best_policy.pt is written only for a mean
\* reward that exceeds the stored best_reward.
C17_ResumeKeepsCounters ==
    /\ [](Resumed =>
             /\ ~Exceeds(loaded.best_reward, best_reward)
             /\ total_steps >= loaded.total_steps)
    /\ [][Resumed =>
             /\ (Quiescent /\ Running') =>
                   /\ total_steps' = total_steps
                   /\ best_reward' = best_reward
             /\ Running =>
                   total_steps' = IF pc = "collect" /\ step' = step + 1
                                  THEN total_steps + NumEnvs ELSE total_steps
             /\ (EpochEnds /\ saves' # saves /\ saves'[Len(saves')].name = BestName) =>
                   Exceeds(rollout_stats.mean_reward, loaded.best_reward)]_vars

\* a complete train call after a load that carried a best reward and a step
\* count: the count went on from the stored one, the best reward rose above it
C17_Witness ==
    /\ Resumed
    /\ train_calls = 2
    /\ pc = "returned"
    /\ ~loaded.best_reward.neg_inf
    /\ loaded.total_steps > 0
    /\ total_steps = loaded.total_steps + MaxEpochs * StepsPerEpoch * NumEnvs
    /\ Exceeds(best_reward, loaded.best_reward)

\* The reward and the done flag of environment e at step t (1..StepsPerEpoch)
\* of the collection that has just finished: its entries are the last
\* StepsPerEpoch ones of the buffers.
StepReward(e, t) == rewards_buffer[Len(rewards_buffer) - StepsPerEpoch + t][e]
StepDone(e, t) == dones_buffer[Len(dones_buffer) - StepsPerEpoch + t][e]

RECURSIVE RewardSpan(_, _, _)
RewardSpan(e, lo, hi) ==
    IF lo > hi THEN 0 ELSE StepReward(e, lo) + RewardSpan(e, lo + 1, hi)

\* the step at which the episode that ends at step t began
EpisodeStart(e, t) ==
    LET earlier == {u \in 1..(t - 1) : StepDone(e, u)}
    IN IF earlier = {} THEN 1
       ELSE 1 + CHOOSE u \in earlier : \A w \in earlier : w <= u

\* the episodes completed in the epoch: the environment and the step of each
Completed == {x \in Envs \X (1..StepsPerEpoch) : StepDone(x[1], x[2])}

RECURSIVE SumReturns(_)
SumReturns(episodes) ==
    IF episodes = {} THEN 0
    ELSE LET x == CHOOSE y \in episodes : TRUE
         IN RewardSpan(x[1], EpisodeStart(x[1], x[2]), x[2])
               + SumReturns(episodes \ {x})

\* C18: collect_rollout returns episodes = the number of episodes completed in
\* the epoch and mean_reward = the sum of their returns divided by that
\* number, and mean_reward = 0 with episodes = 0 when no environment reported
\* done.
C18_MeanOfCompletedEpisodes ==
    pc = "update" =>
        /\ rollout_stats.episodes = Cardinality(Completed)
        /\ ~rollout_stats.mean_reward.neg_inf
        /\ rollout_stats.mean_reward.den > 0
        /\ IF Completed = {}
           THEN rollout_stats.mean_reward.num = 0
           ELSE rollout_stats.mean_reward.num * Cardinality(Completed)
                   = SumReturns(Completed) * rollout_stats.mean_reward.den

\* an epoch in which no environment reported done, with rewards collected
C18_Witness ==
    /\ pc = "update"
    /\ Completed = {}
    /\ \A e \in Envs : current_rewards[e] > 0
    /\ rollout_stats = [mean_reward |-> [neg_inf |-> FALSE, num |-> 0, den |-> 1],
                        episodes |-> 0]

\* batch_size does not divide num_envs x steps_per_epoch
BatchSizeUnfit == (NumEnvs * StepsPerEpoch) % config.batch_size # 0

\* C19 (as claimed): a configuration whose batch_size does not divide
\* num_envs x steps_per_epoch is rejected at start-up: train never runs, no
\* environment step is taken and no optimizer step is applied.
C19_UnfitBatchSizeRejected ==
    BatchSizeUnfit =>
        /\ ~Running
        /\ total_steps = 0
        /\ policy_version = 0
        /\ optimizer_state = 0

\* C20 (as claimed): when env.step raises during a collection, train is left
\* with the error and without an optimizer step, and the transitions gathered
\* before the failure are not kept: no later collection starts on top of them.
C20_FailedEpochDiscarded ==
    /\ [][exception' = "EnvError" /\ exception # "EnvError" =>
             /\ pc' = "raised"
             /\ policy_version' = policy_version
             /\ optimizer_state' = optimizer_state]_vars
    /\ []((pc = "collect" /\ step = 0) => BuffersEmpty)

\* ---------------------------------------------------------------------------
\* C21: the bootstrap value update_policy passes to compute_gae is the
\* critic's value of the observation returned by the final environment step
\* of the collection (the observation that follows the last stored
\* transition), evaluated with the parameters in force before the optimizer
\* pass
UpdateReturns == pc = "update" /\ pc' \in {"record", "raised"} /\ exception' # "KeyboardInterrupt"
C21_BootstrapFollowsLastTransition ==
    [][UpdateReturns =>
          last_value' = [e \in Envs |-> CriticValue(policy_version, obs)]]_vars

\* ---------------------------------------------------------------------------
\* C22: within a train call the phases follow COLLECTING -> UPDATING ->
\* (CHECKPOINTING)? -> COLLECTING: a finished collection is followed by
\* exactly one update_policy call before the next collection starts, the
\* checkpoints of an epoch are written only after that epoch's update_policy
\* call has returned, and train returns after exactly max_epochs epochs with
\* one mean reward and one loss entry per epoch in the returned history
NewSaves == SubSeq(saves', Len(saves) + 1, Len(saves'))
PhaseOrder ==
    /\ pc = "collect" /\ pc' # "raised" =>
          /\ pc' = (IF step' = StepsPerEpoch THEN "update" ELSE "collect")
          /\ step' = step + 1
          /\ epoch' = epoch
    /\ pc = "update" /\ pc' # "raised" =>
          /\ pc' = "record"
          /\ epoch' = epoch
          /\ optimizer_state' > optimizer_state
    /\ pc = "record" /\ pc' # "raised" =>
          /\ pc' = (IF epoch + 1 < MaxEpochs THEN "collect" ELSE "returned")
          /\ pc' = "collect" => epoch' = epoch + 1 /\ step' = 0
          /\ Len(history'.rewards) = epoch + 1
          /\ Len(history'.losses) = epoch + 1
    /\ pc = "update" \/ optimizer_state' = optimizer_state \/ ~Running
    /\ pc' = "collect" /\ pc # "collect" => pc = "record" \/ Quiescent
    /\ pc' = "returned" /\ pc # "returned" => pc = "record" /\ epoch = MaxEpochs - 1
    /\ (Running \/ Running') /\ saves' # saves =>
          /\ pc = "record"
          /\ \A i \in 1..Len(NewSaves) :
                /\ NewSaves[i].content.epoch = epoch
                /\ NewSaves[i].content.policy_state = policy_version
                /\ NewSaves[i].content.optimizer_state = optimizer_state
HistoryPerEpoch ==
    /\ pc \in {"collect", "update", "record"} =>
          Len(history.rewards) = epoch /\ Len(history.losses) = epoch
    /\ pc = "returned" =>
          Len(history.rewards) = MaxEpochs /\ Len(history.losses) = MaxEpochs
C22_TrainCycle == [](HistoryPerEpoch) /\ [][PhaseOrder]_vars
C22_Witness ==
    /\ pc = "returned"
    /\ Len(history.rewards) = MaxEpochs
    /\ Len(saves) > 1
    /\ train_calls = 2

\* ---------------------------------------------------------------------------
\* C23: during train the policy parameters change only in update_policy,
\* never in a collection step; every action, log-probability and value a
\* collection has stored so far comes from the parameters currently in
\* force, which are therefore also the parameters in force when that
\* epoch's update_policy call begins
VersionOf(value) == value \div (StepsPerEpoch + 1)
CollectedSoFar == (Len(log_probs_buffer) - step + 1)..Len(log_probs_buffer)
FrozenSnapshot ==
    pc \in {"collect", "update"} =>
       /\ Len(log_probs_buffer) >= step
       /\ Len(values_buffer) = Len(log_probs_buffer)
       /\ Len(actions_buffer) = Len(log_probs_buffer)
       /\ \A i \in CollectedSoFar :
             /\ log_probs_buffer[i] = policy_version
             /\ actions_buffer[i] = policy_version
             /\ \A e \in Envs : VersionOf(values_buffer[i][e]) = policy_version
SoleWriter == Running /\ policy_version' # policy_version => pc = "update"
C23_FrozenPolicyDuringCollection == [](FrozenSnapshot) /\ [][SoleWriter]_vars
C23_Witness ==
    /\ pc = "update"
    /\ policy_version > 0
    /\ epoch > 0
    /\ Len(log_probs_buffer) = StepsPerEpoch

\* ---------------------------------------------------------------------------
\* C24 (as claimed): after every update_policy call the six buffers are
\* empty; a stored item is never modified between its insertion and the
\* clearing (a buffer only grows by an append or is cleared); and no buffer
\* content persists across epochs: every epoch starts on empty buffers.
AppendedOrCleared(buffer, after) ==
    \/ after = buffer
    \/ after = <<>>
    \/ /\ pc = "collect"
       /\ Len(after) = Len(buffer) + 1
       /\ SubSeq(after, 1, Len(buffer)) = buffer
EpochStarts == pc' = "collect" /\ step' = 0 /\ (pc # "collect" \/ step # 0)
C24_BuffersDoNotPersist ==
    /\ [][UpdateReturns => BuffersEmpty']_vars
    /\ [][/\ AppendedOrCleared(obs_buffer, obs_buffer')
          /\ AppendedOrCleared(actions_buffer, actions_buffer')
          /\ AppendedOrCleared(rewards_buffer, rewards_buffer')
          /\ AppendedOrCleared(values_buffer, values_buffer')
          /\ AppendedOrCleared(log_probs_buffer, log_probs_buffer')
          /\ AppendedOrCleared(dones_buffer, dones_buffer')]_vars
    /\ [][EpochStarts => BuffersEmpty']_vars

(***************************************************************************)
(* PPOTrainer.update_policy, one minibatch at a time: the first call of    *)
(* update_policy of a fresh trainer, after a collection in which every     *)
(* environment step returned reward 1 and no episode ended.                *)
(***************************************************************************)
\* the batch sizes drawn: all that divide the flattened buffer, some that
\* do not, and one larger than it
UpdateBatchSizes == 1..(NumEnvs * StepsPerEpoch + 1)

\* indices[start:end]: a Python slice stops at the end of the sequence
Slice(seq, from, to) == SubSeq(seq, from + 1, IF to < Len(seq) THEN to ELSE Len(seq))

\* loss.item(), policy_loss.item(), value_loss.item() of one minibatch: the
\* floats are kept as integers that the minibatch's content determines
MinibatchLosses(batch_indices) ==
    [loss |-> SumSeq(batch_indices) + Len(batch_indices),
     policy_loss |-> SumSeq(batch_indices),
     value_loss |-> Len(batch_indices)]

InitBatch ==
    /\ TwinIdle
    /\ result = NoResult
    /\ LossIdle
    /\ BatchIdle
    /\ GaeIdle
    /\ obs_buffer = [t \in 1..StepsPerEpoch |-> t - 1]
    /\ actions_buffer = [t \in 1..StepsPerEpoch |-> 0]
    /\ rewards_buffer = [t \in 1..StepsPerEpoch |-> [e \in Envs |-> 1]]
    /\ values_buffer = [t \in 1..StepsPerEpoch |-> [e \in Envs |-> CriticValue(0, t - 1)]]
    /\ log_probs_buffer = [t \in 1..StepsPerEpoch |-> 0]
    /\ dones_buffer = [t \in 1..StepsPerEpoch |-> [e \in Envs |-> FALSE]]
    /\ epoch = 0
    /\ total_steps = NumEnvs * StepsPerEpoch
    /\ best_reward = NegInf
    /\ policy_version = 0
    /\ optimizer_state = 0
    /\ config \in [batch_size : UpdateBatchSizes, save_interval : {1}]
    /\ files = <<>>
    /\ saves = <<>>
    /\ pc = "update"
    /\ train_calls = 1
    /\ step = StepsPerEpoch
    /\ obs = StepsPerEpoch
    /\ current_rewards = [e \in Envs |-> StepsPerEpoch]
    /\ episode_rewards = <<>>
    /\ rollout_stats = RolloutStats(<<>>)
    /\ update_stats = NoUpdate
    /\ history = NoHistory
    /\ exception = ""
    /\ loaded = NoLoad
    /\ api_calls = 0
    /\ best_seen = NegInf

\* update_policy, up to the minibatch loop: the buffers are flattened, the
\* bootstrap value is computed, num_batches and the permutation are set
EnterUpdate ==
    /\ pc = "update"
    /\ indices = <<>>
    /\ LET n == NumEnvs * Len(obs_buffer)
       IN /\ num_batches' = n \div config.batch_size
          /\ indices' \in Permutations(1..n)
    /\ last_value' = [e \in Envs |-> CriticValue(policy_version, obs_buffer[Len(obs_buffer)])]
    /\ start' = 0
    /\ batches' = <<>>
    /\ loss_totals' = NoLosses
    /\ UNCHANGED <<twinVars, lossVars, bufferVars, gae_result, counterVars, trainVars,
                   update_result>>

\* one iteration of for start in range(0, obs.shape[0], batch_size)
MinibatchStep ==
    /\ pc = "update"
    /\ indices # <<>>
    /\ start < Len(indices)
    /\ LET end == start + config.batch_size
           batch_indices == Slice(indices, start, end)
           losses == MinibatchLosses(batch_indices)
       IN /\ batches' = Append(batches, batch_indices)
          /\ loss_totals' =
                [loss |-> loss_totals.loss + losses.loss,
                 policy_loss |-> loss_totals.policy_loss + losses.policy_loss,
                 value_loss |-> loss_totals.value_loss + losses.value_loss]
          /\ start' = end
    /\ policy_version' = policy_version + 1
    /\ optimizer_state' = optimizer_state + 1
    /\ UNCHANGED <<twinVars, lossVars, bufferVars, gaeVars, epoch, total_steps,
                   best_reward, trainVars, indices, num_batches, update_result>>

\* update_policy, after the loop: the buffers are cleared and the totals are
\* divided by num_batches
ReturnLosses ==
    /\ pc = "update"
    /\ indices # <<>>
    /\ start >= Len(indices)
    /\ obs_buffer' = <<>>
    /\ actions_buffer' = <<>>
    /\ rewards_buffer' = <<>>
    /\ values_buffer' = <<>>
    /\ log_probs_buffer' = <<>>
    /\ dones_buffer' = <<>>
    /\ IF num_batches = 0
       THEN /\ pc' = "raised"
            /\ exception' = "ZeroDivisionError"
            /\ update_result' = [status |-> "ZeroDivisionError"]
            /\ UNCHANGED update_stats
       ELSE /\ pc' = "record"
            /\ update_result' =
                  [status |-> "returned",
                   loss |-> Quotient(loss_totals.loss, num_batches),
                   policy_loss |-> Quotient(loss_totals.policy_loss, num_batches),
                   value_loss |-> Quotient(loss_totals.value_loss, num_batches)]
            /\ update_stats' = [minibatches |-> Len(batches), num_batches |-> num_batches]
            /\ UNCHANGED exception
    /\ UNCHANGED <<twinVars, lossVars, gaeVars, counterVars, config, files, saves,
                   train_calls, step, obs, current_rewards, episode_rewards,
                   rollout_stats, history, loaded, api_calls, best_seen,
                   indices, num_batches, start, batches, loss_totals>>

NextBatch ==
    \/ EnterUpdate
    \/ MinibatchStep
    \/ ReturnLosses

SpecBatch == InitBatch /\ [][NextBatch]_vars

\* ---------------------------------------------------------------------------
\* C25 (as claimed): the random permutation splits the flattened transitions
\* into minibatches so that every transition lies in exactly one minibatch,
\* every minibatch holds exactly batch_size transitions, and the optimizer
\* takes exactly one step per minibatch.
LoopFinished == update_result # NoUpdateResult
TimesDrawn(k) ==
    Cardinality({p \in (1..Len(batches)) \X (1..(NumEnvs * StepsPerEpoch)) :
                    p[2] <= Len(batches[p[1]]) /\ batches[p[1]][p[2]] = k})
EachTransitionOnce == \A k \in 1..(NumEnvs * StepsPerEpoch) : TimesDrawn(k) = 1
C25_MinibatchPartition ==
    /\ optimizer_state = Len(batches)
    /\ \A i \in 1..Len(batches) : Len(batches[i]) = config.batch_size
    /\ LoopFinished => EachTransitionOnce

\* ---------------------------------------------------------------------------
\* C29 (as claimed): for every batch_size >= 1, also one larger than the
\* number of stored transitions or one that does not divide it, update_policy
\* returns without raising, and each loss it reports is the sum of the
\* per-minibatch values divided by the number of minibatches processed.
MeanOverProcessed(reported, total) ==
    reported.num * Len(batches) = total * reported.den
C29_LossesAveragedOverMinibatches ==
    LoopFinished =>
       /\ update_result.status = "returned"
       /\ MeanOverProcessed(update_result.loss, loss_totals.loss)
       /\ MeanOverProcessed(update_result.policy_loss, loss_totals.policy_loss)
       /\ MeanOverProcessed(update_result.value_loss, loss_totals.value_loss)

\* ---------------------------------------------------------------------------
\* C26: every entry of episode_rewards is the sum of one environment's
\* rewards from the step after its previous done of the epoch (or from the
\* epoch's first step) through the step that reported done; there is one
\* entry per (environment, step) pair with done; the running return of an
\* environment that is not done when the epoch ends enters no statistics:
\* the statistics are those of episode_rewards and the next collection
\* starts with all running returns at zero.
CollectedReward(e, t) == rewards_buffer[Len(rewards_buffer) - step + t][e]
CollectedDone(e, t) == dones_buffer[Len(dones_buffer) - step + t][e]

\* the step after the last done of environment e among the steps 1..t (1 if none)
RunStart(e, t) ==
    LET earlier == {u \in 1..t : CollectedDone(e, u)}
    IN IF earlier = {} THEN 1
       ELSE 1 + CHOOSE u \in earlier : \A w \in earlier : w <= u

RECURSIVE RunningReturn(_, _, _)
RunningReturn(e, lo, hi) ==
    IF lo > hi THEN 0 ELSE CollectedReward(e, lo) + RunningReturn(e, lo + 1, hi)

RECURSIVE EpisodesOfStep(_, _)
EpisodesOfStep(t, e) ==
    IF e > NumEnvs THEN <<>>
    ELSE (IF CollectedDone(e, t)
          THEN <<RunningReturn(e, RunStart(e, t - 1), t)>>
          ELSE <<>>) \o EpisodesOfStep(t, e + 1)

RECURSIVE EpisodesThrough(_)
EpisodesThrough(t) ==
    IF t = 0 THEN <<>> ELSE EpisodesThrough(t - 1) \o EpisodesOfStep(t, 1)

DonePairs == {x \in Envs \X (1..step) : CollectedDone(x[1], x[2])}

EpisodeAccounting ==
    pc \in {"collect", "update"} =>
       /\ episode_rewards = EpisodesThrough(step)
       /\ Len(episode_rewards) = Cardinality(DonePairs)
       /\ \A e \in Envs : current_rewards[e] = RunningReturn(e, RunStart(e, step), step)
       /\ pc = "update" =>
             /\ rollout_stats.episodes = Len(episode_rewards)
             /\ rollout_stats.mean_reward.num * (IF episode_rewards = <<>> THEN 1
                                                 ELSE Len(episode_rewards))
                   = SumSeq(episode_rewards) * rollout_stats.mean_reward.den
C26_EpisodeRewards ==
    /\ [](EpisodeAccounting)
    /\ [][EpochStarts =>
             /\ episode_rewards' = <<>>
             /\ current_rewards' = [e \in Envs |-> 0]]_vars
\* an epoch after the first ends with a two-step episode recorded and an
\* unfinished episode of another environment left in its running return
C26_Witness ==
    /\ pc = "update"
    /\ epoch > 0
    /\ \E i \in 1..Len(episode_rewards) : episode_rewards[i] = 3
    /\ \E e \in Envs : current_rewards[e] = 2

\* ---------------------------------------------------------------------------
\* C27 (as claimed): a checkpoint is never changed after it was written:
\* every torch.save of save_checkpoint, in train or from outside, after any
\* epochs, improvements, train calls and load_checkpoint calls, creates a
\* file that did not exist and leaves every existing file as it was.
WrittenNames == {NewSaves[i].name : i \in 1..Len(NewSaves)}
C27_CheckpointsNeverRewritten ==
    [][/\ \A name \in DOMAIN files : name \in DOMAIN files' /\ files'[name] = files[name]
       /\ WrittenNames \cap DOMAIN files = {}]_vars

\* ---------------------------------------------------------------------------
\* C28 (as claimed): every checkpoint train writes during epoch e, periodic
\* or best, stores the epoch and total_steps of epoch e and a best_reward
\* that accounts for epoch e: no mean reward of the epochs up to and
\* including e exceeds it.
AccountsForEpochs(stored, means) ==
    \A i \in 1..Len(means) : ~Exceeds(means[i], stored)
C28_CheckpointBestRewardCurrent ==
    [][pc = "record" =>
          \A i \in 1..Len(NewSaves) :
             /\ NewSaves[i].content.epoch = epoch
             /\ NewSaves[i].content.total_steps = total_steps
             /\ AccountsForEpochs(NewSaves[i].content.best_reward, history'.rewards)]_vars

\* ---------------------------------------------------------------------------
\* C30: while train runs best_reward never decreases and changes only when
\* an epoch ends; after each epoch it is the larger of its value before the
\* epoch and the epoch's mean reward as recorded in history (epoch by epoch:
\* the largest of its value when train started and all means recorded so
\* far; the mean 0 of an epoch without episodes counts like any other); and
\* best_policy.pt is written in exactly the epochs in which best_reward
\* increases.
LastMean(h) == h.rewards[Len(h.rewards)]
BestWritten == \E i \in 1..Len(NewSaves) : NewSaves[i].name = BestName
BestRewardStep ==
    /\ Running => ~Exceeds(best_reward, best_reward')
    /\ EpochEnds =>
          /\ best_reward' = LargerReward(best_reward, LastMean(history'))
          /\ AccountsForEpochs(best_reward', history'.rewards)
          /\ BestWritten <=> Exceeds(best_reward', best_reward)
    /\ Running /\ ~EpochEnds => best_reward' = best_reward /\ ~BestWritten
C30_BestRewardIsRunningMaximum ==
    /\ [](Running => AccountsForEpochs(best_reward, history.rewards))
    /\ [][BestRewardStep]_vars
\* a second train call has returned: the mean of its first epoch was 0, the
\* mean of its second epoch exceeded it and is best_reward
C30_Witness ==
    /\ pc = "returned"
    /\ train_calls = 2
    /\ Len(history.rewards) = 2
    /\ history.rewards[1].num = 0
    /\ Exceeds(best_reward, history.rewards[1])
    /\ best_reward = history.rewards[2]

====
